---- MODULE Spec2Model ----
(***************************************************************************)
(* State-machine model of the composite (double-key) hash table of         *)
(* src/double_key_table.py and of the branching hash table of              *)
(* src/infinite_hash_table.py.                                             *)
(*                                                                         *)
(* Conventions.                                                            *)
(*   - A string is the sequence of its character codes: "a" is <<97>>.     *)
(*   - None is the empty tuple <<>>; an occupied outer slot is             *)
(*     <<key1, sub_table>>, an occupied inner slot is <<key2, data>>.      *)
(*   - An ArrayR of length n is a function on 0..n-1.                      *)
(*   - A DoubleKeyTable object is the record                               *)
(*       [TABLE_SIZES, internal_sizes, array_outer, count_outer,           *)
(*        size_index_outer, exc]                                           *)
(*     where exc is the exception in flight ("none" while the call is      *)
(*     still running normally).  Python keeps every assignment made before *)
(*     a raise, so an operator that raises returns the object as mutated   *)
(*     so far, with exc set.                                               *)
(*   - A LinearProbeTable object (the inner table) is the record           *)
(*       [TABLE_SIZES, array, count, size_index].                          *)
(*   - An InfiniteHashTable object is the record                           *)
(*       [top_table, count, level, exc]; a slot of one of its tables is    *)
(*     None or <<key, value>>, where value carries its run-time type:      *)
(*     [type |-> "value", v |-> data] or [type |-> "ArrayR", v |-> table]. *)
(*     A table of the tree is named by its path, the slot indices that     *)
(*     lead to it from top_table.                                          *)
(***************************************************************************)
EXTENDS Integers, Sequences, FiniteSets, TLC

VARIABLES TABLE_SIZES, internal_sizes, array_outer, count_outer,
          size_index_outer, last, present, deleted, nops,
          top_table, count, level,
          highest_difficulty, organiser_list,
          trail, current_store, following_stack, added, choices

vars == <<TABLE_SIZES, internal_sizes, array_outer, count_outer,
          size_index_outer, last, present, deleted, nops,
          top_table, count, level,
          highest_difficulty, organiser_list,
          trail, current_store, following_stack, added, choices>>

\* the fields of a MountainManager and of a MountainOrganiser beside the
\* manager's table, and the trail being followed with the locals of follow_path
mountain_vars == <<highest_difficulty, organiser_list>>
trail_vars == <<trail, current_store, following_stack, added, choices>>

(***************************************************************************)
(* Bounds of the model.                                                    *)
(***************************************************************************)
\* number of set/delete calls made on one table
MaxOps == 6
\* iterations granted to the inner re-insertion loop of __delitem__ before the
\* call is reported as not returning
MaxLoop == 30

\* primary keys "a", "b", "f": in a 5-slot outer table hash1 puts "a" and "f"
\* in the same slot and "b" in the next one
Keys1 == {<<97>>, <<98>>, <<102>>}
\* secondary keys "a", "f": hash2 puts them in the same slot of a 5-slot table
Keys2 == {<<97>>, <<102>>}
Values == {1, 2}

None == <<>>

ArrayR(n) == [i \in 0..(n - 1) |-> None]

\* len(array)
length(array) == Cardinality(DOMAIN array)

HASH_BASE == 31

(***************************************************************************)
(* hash1 / hash2: the polynomial rolling hash.                             *)
(***************************************************************************)
RECURSIVE hash_loop(_, _, _, _, _)
hash_loop(key, i, value, a, size) ==
    IF i > Len(key) THEN value
    ELSE hash_loop(key, i + 1, (key[i] + a * value) % size,
                   (a * HASH_BASE) % (size - 1), size)

hash1(self, key) == hash_loop(key, 1, 0, 31415, length(self.array_outer))

hash2(key, sub_table) == hash_loop(key, 1, 0, 31415, length(sub_table.array))

(***************************************************************************)
(* The inner table: LinearProbeTable of data_structures.hash_table, which  *)
(* is not among the source files; modelled from the contract of the slot   *)
(* table (linear probing from hash(key), wrap, fail after a full cycle;    *)
(* rehash to the next capacity, a no-op once the sequence is exhausted).   *)
(***************************************************************************)
LinearProbeTable(sizes) ==
    [TABLE_SIZES |-> sizes, array |-> ArrayR(sizes[1]), count |-> 0,
     size_index |-> 0]

RECURSIVE lp_scan(_, _, _, _, _)
lp_scan(tab, key, position, n, is_insert) ==
    IF n = 0
    THEN [pos |-> position, exc |-> IF is_insert THEN "FullError" ELSE "KeyError"]
    ELSE IF tab.array[position] = None
    THEN [pos |-> position, exc |-> IF is_insert THEN "none" ELSE "KeyError"]
    ELSE IF tab.array[position][1] = key
    THEN [pos |-> position, exc |-> "none"]
    ELSE lp_scan(tab, key, (position + 1) % length(tab.array), n - 1, is_insert)

\* sub_table._linear_probe(key2, is_insert) with sub_table.hash = hash2
lp_linear_probe(tab, key, is_insert) ==
    lp_scan(tab, key, hash2(key, tab), length(tab.array), is_insert)

RECURSIVE lp_rehash(_)
RECURSIVE lp_setitem(_, _, _)
RECURSIVE lp_reinsert(_, _, _)

\* the load check that ends a set: rehash above half occupancy
lp_check(tab) ==
    IF 2 * tab.count > length(tab.array) THEN lp_rehash(tab) ELSE tab

\* the assignment of a set, at the slot p the probe found
lp_put(tab, key, data, p) ==
    IF p.exc # "none" THEN tab
    ELSE lp_check([tab EXCEPT
                     !.array[p.pos] = <<key, data>>,
                     !.count = IF tab.array[p.pos] = None THEN @ + 1 ELSE @])

\* sub_table[key] = data, as used by the inner table's own rehash
lp_setitem(tab, key, data) ==
    lp_put(tab, key, data, lp_linear_probe(tab, key, TRUE))

lp_reinsert(tab, old_array, i) ==
    IF i = length(old_array) THEN tab
    ELSE IF old_array[i] = None THEN lp_reinsert(tab, old_array, i + 1)
    ELSE lp_reinsert(lp_setitem(tab, old_array[i][1], old_array[i][2]),
                     old_array, i + 1)

\* inner_table._rehash()
lp_rehash(tab) ==
    IF tab.size_index + 1 >= Len(tab.TABLE_SIZES) THEN tab
    ELSE lp_reinsert([tab EXCEPT
                        !.size_index = @ + 1,
                        !.array = ArrayR(tab.TABLE_SIZES[tab.size_index + 2]),
                        !.count = 0],
                     tab.array, 0)

\* sub_table.keys() / sub_table.values(): slot order
RECURSIVE lp_items(_, _, _)
lp_items(array, i, field) ==
    IF i = length(array) THEN <<>>
    ELSE IF array[i] = None THEN lp_items(array, i + 1, field)
    ELSE <<array[i][field]>> \o lp_items(array, i + 1, field)

lp_keys(tab) == lp_items(tab.array, 0, 1)

lp_values(tab) == lp_items(tab.array, 0, 2)

(***************************************************************************)
(* DoubleKeyTable.                                                         *)
(***************************************************************************)
\* DoubleKeyTable(sizes, internal_sizes)
DoubleKeyTable(sizes, isizes) ==
    [TABLE_SIZES |-> sizes, internal_sizes |-> isizes,
     array_outer |-> ArrayR(sizes[1]), count_outer |-> 0,
     size_index_outer |-> 0, exc |-> "none"]

table_size(self) == length(self.array_outer)

raise(self, e) == [self EXCEPT !.exc = e]

\* the outer scan of _linear_probe: the slot of key1, created in insert mode
RECURSIVE outer_scan(_, _, _, _, _)
outer_scan(self, key1, index1, i, is_insert) ==
    IF self.array_outer[index1] = None
    THEN IF is_insert
         THEN [self |-> [self EXCEPT
                           !.array_outer[index1] =
                               <<key1, LinearProbeTable(self.internal_sizes)>>,
                           !.count_outer = @ + 1],
               index1 |-> index1]
         ELSE [self |-> raise(self, "KeyError"), index1 |-> index1]
    ELSE IF self.array_outer[index1][1] = key1
    THEN [self |-> self, index1 |-> index1]
    ELSE IF i = table_size(self) - 1
    THEN [self |-> raise(self, IF is_insert THEN "FullError" ELSE "KeyError"),
          index1 |-> index1]
    ELSE outer_scan(self, key1, (index1 + 1) % table_size(self), i + 1, is_insert)

\* the end of _linear_probe: the outer slot o and the inner position p
probe_result(o, p) ==
    [self |-> raise(o.self, p.exc), index1 |-> o.index1, index2 |-> p.pos]

\* the inner probe of _linear_probe, in the sub_table of the outer slot o
probe_inner(o, key2, is_insert) ==
    IF o.self.exc # "none"
    THEN [self |-> o.self, index1 |-> o.index1, index2 |-> 0]
    ELSE probe_result(o, lp_linear_probe(o.self.array_outer[o.index1][2],
                                         key2, is_insert))

\* _linear_probe with the outer scan always in insert mode: a lookup of an
\* absent key1 takes an outer slot for it
linear_probe_inserting(self, key1, key2, is_insert) ==
    probe_inner(outer_scan(self, key1, hash1(self, key1), 0, TRUE),
                key2, is_insert)

\* _linear_probe(key1, key2, is_insert): [self, index1, index2]
linear_probe(self, key1, key2, is_insert) ==
    probe_inner(outer_scan(self, key1, hash1(self, key1), 0, is_insert),
                key2, is_insert)

\* the value read at the probed position p
read(p) ==
    IF p.self.exc # "none" THEN [exc |-> p.self.exc, value |-> 0]
    ELSE [exc |-> "none",
          value |-> p.self.array_outer[p.index1][2].array[p.index2][2]]

\* __getitem__: [exc, value]
getitem(self, key1, key2) == read(linear_probe(self, key1, key2, FALSE))

\* __contains__
contains(self, key1, key2) == getitem(self, key1, key2).exc = "none"

RECURSIVE setitem(_, _, _, _)
RECURSIVE rehash(_)
RECURSIVE rehash_loop(_, _, _, _)

\* the sub_table of the probed slot with <<key2, data>> assigned at index2
assigned(inner_table, index2, key2, data) ==
    [inner_table EXCEPT
       !.array[index2] = <<key2, data>>,
       !.count = IF inner_table.array[index2] = None THEN @ + 1 ELSE @]

\* the assignment of __setitem__ at the probed position p
store_at(p, key1, key2, data) ==
    IF p.self.exc # "none" THEN p.self
    ELSE [p.self EXCEPT
            !.array_outer[p.index1] =
                <<key1, assigned(p.self.array_outer[p.index1][2], p.index2,
                                 key2, data)>>]

\* __setitem__ up to the assignment of the pair, before the load checks
store(self, key1, key2, data) ==
    store_at(linear_probe(self, key1, key2, TRUE), key1, key2, data)

\* the slot of array_outer that holds key1 on its probe path: index1 of
\* __setitem__ once the pair is assigned
slot_of(self, key1) ==
    outer_scan(self, key1, hash1(self, key1), 0, FALSE).index1

\* whether _rehash, called on s1, allocates a new outer array
allocates(s1) == s1.size_index_outer + 1 < Len(s1.TABLE_SIZES)

\* __setitem__ without lines 262-263: the inner table is never rehashed
inner_check_skipped(s1, s2, key1) == s2

\* the inner load check of __setitem__, on the table its variable inner_table
\* names; s2 is the table after the outer load check of s1.
\* A rehash that allocated a new outer array re-created every inner table:
\* inner_table is then no longer referenced, and its rehash changes nothing.
inner_check(s1, s2, key1) ==
    IF s2.exc # "none" THEN s2
    ELSE IF 2 * s1.count_outer > table_size(s1) /\ allocates(s1) THEN s2
    ELSE [s2 EXCEPT !.array_outer[slot_of(s1, key1)] =
                        <<key1, lp_check(s1.array_outer[slot_of(s1, key1)][2])>>]

\* the outer load check of __setitem__
outer_check(s1, key1) ==
    IF s1.exc # "none" THEN s1
    ELSE inner_check(s1,
                     IF 2 * s1.count_outer > table_size(s1) THEN rehash(s1)
                     ELSE s1,
                     key1)

\* __setitem__
setitem(self, key1, key2, data) ==
    outer_check(store(self, key1, key2, data), key1)

rehash_loop(self, old_array, i, j) ==
    IF self.exc # "none" \/ i = length(old_array) THEN self
    ELSE IF old_array[i] = None THEN rehash_loop(self, old_array, i + 1, 0)
    ELSE IF j = length(old_array[i][2].array)
    THEN rehash_loop(self, old_array, i + 1, 0)
    ELSE IF old_array[i][2].array[j] = None
    THEN rehash_loop(self, old_array, i, j + 1)
    ELSE rehash_loop(setitem(self, old_array[i][1],
                             old_array[i][2].array[j][1],
                             old_array[i][2].array[j][2]),
                     old_array, i, j + 1)

\* _rehash with old_array read after the new array is allocated: nothing is
\* re-inserted
rehash_new_array(self) ==
    LET bumped == [self EXCEPT !.size_index_outer = @ + 1] IN
    IF bumped.size_index_outer = Len(self.TABLE_SIZES) THEN bumped
    ELSE IF bumped.size_index_outer > Len(self.TABLE_SIZES)
    THEN raise(bumped, "IndexError")
    ELSE [bumped EXCEPT
            !.array_outer = ArrayR(self.TABLE_SIZES[bumped.size_index_outer + 1]),
            !.count_outer = 0]

\* _rehash
rehash(self) ==
    LET bumped == [self EXCEPT !.size_index_outer = @ + 1] IN
    IF bumped.size_index_outer = Len(self.TABLE_SIZES) THEN bumped
    ELSE IF bumped.size_index_outer > Len(self.TABLE_SIZES)
    THEN raise(bumped, "IndexError")
    ELSE rehash_loop([bumped EXCEPT
                        !.array_outer =
                            ArrayR(self.TABLE_SIZES[bumped.size_index_outer + 1]),
                        !.count_outer = 0],
                     self.array_outer, 0, 0)

RECURSIVE del_inner(_, _, _, _, _)

\* after one re-insertion of the inner while loop of __delitem__
del_inner_next(s1, key1, inner_tabl, index2, fuel) ==
    IF s1.exc # "none" THEN [self |-> s1, index2 |-> index2]
    ELSE del_inner(s1, key1, inner_tabl,
                   (index2 + 1) % length(inner_tabl.array), fuel - 1)

\* the inner while loop of __delitem__: re-insert under key1 the entries of the
\* removed inner table found from slot index2 up to its next empty slot
del_inner(self, key1, inner_tabl, index2, fuel) ==
    IF index2 >= length(inner_tabl.array)
    THEN [self |-> raise(self, "IndexError"), index2 |-> index2]
    ELSE IF inner_tabl.array[index2] = None
    THEN [self |-> self, index2 |-> index2]
    ELSE IF fuel = 0
    THEN [self |-> raise(self, "NoReturn"), index2 |-> index2]
    ELSE del_inner_next(setitem(self, key1, inner_tabl.array[index2][1],
                                inner_tabl.array[index2][2]),
                        key1, inner_tabl, index2, fuel)

\* __delitem__ without its outer while loop: the slots that follow are left
\* where they are
del_outer_none(self, index1, index2, fuel) == self

RECURSIVE del_outer(_, _, _, _)

\* after the inner while loop, whose result is r: the next outer slot
del_outer_next(r, index1, fuel) ==
    IF r.self.exc # "none" THEN r.self
    ELSE del_outer(r.self, (index1 + 1) % table_size(r.self), r.index2, fuel - 1)

\* the outer while loop of __delitem__: every occupied outer slot that follows
del_outer(self, index1, index2, fuel) ==
    IF self.array_outer[index1] = None THEN self
    ELSE IF fuel = 0 THEN raise(self, "NoReturn")
    ELSE del_outer_next(del_inner([self EXCEPT !.array_outer[index1] = None],
                                  self.array_outer[index1][1],
                                  self.array_outer[index1][2], index2, MaxLoop),
                        index1, fuel)

\* the removal of __delitem__ at the probed position p: the inner slot is
\* cleared, and the outer slot too when its inner table is left empty
removed(self, p, key1) ==
    LET inner_table == self.array_outer[p.index1][2] IN
    IF inner_table.count - 1 = 0
    THEN [self EXCEPT !.array_outer[p.index1] = None, !.count_outer = @ - 1]
    ELSE [self EXCEPT !.array_outer[p.index1] =
                          <<key1, [inner_table EXCEPT !.array[p.index2] = None,
                                                      !.count = @ - 1]>>]

\* __delitem__ from the probed position p
delete_at(self, p, key1) ==
    IF p.self.exc # "none" THEN p.self
    ELSE del_outer(removed(self, p, key1), (p.index1 + 1) % table_size(self),
                   p.index2, MaxLoop)

\* __delitem__
delitem(self, key1, key2) ==
    delete_at(self, linear_probe(self, key1, key2, FALSE), key1)

\* the slots of array_outer from slot i on that hold key1 (all occupied ones
\* when any is TRUE), in slot order
RECURSIVE outer_slots(_, _, _, _)
outer_slots(self, i, any, key) ==
    IF i = table_size(self) THEN <<>>
    ELSE IF self.array_outer[i] # None /\ (any \/ self.array_outer[i][1] = key)
    THEN <<i>> \o outer_slots(self, i + 1, any, key)
    ELSE outer_slots(self, i + 1, any, key)

RECURSIVE concat_values(_, _, _)
concat_values(self, slots, n) ==
    IF n > Len(slots) THEN <<>>
    ELSE lp_values(self.array_outer[slots[n]][2]) \o concat_values(self, slots, n + 1)

\* keys(): the top-level keys, slot order
keys_all(self) ==
    LET slots == outer_slots(self, 0, TRUE, None)
    IN [n \in 1..Len(slots) |-> self.array_outer[slots[n]][1]]

\* keys(key): the bottom-level keys of the first outer slot holding key
keys(self, key) ==
    LET slots == outer_slots(self, 0, FALSE, key)
    IN IF slots = <<>> THEN <<>> ELSE lp_keys(self.array_outer[slots[1]][2])

\* values(): all values, outer slot order then inner slot order
values_all(self) == concat_values(self, outer_slots(self, 0, TRUE, None), 1)

\* values(key): the values of the first outer slot holding key
values(self, key) ==
    LET slots == outer_slots(self, 0, FALSE, key)
    IN IF slots = <<>> THEN <<>> ELSE lp_values(self.array_outer[slots[1]][2])

\* __len__
len(self) == self.count_outer

(***************************************************************************)
(* The state machine: one table object, and the calls made on it.          *)
(*   last     the call made last: its arguments and how it ended           *)
(*   present  the pairs set and not subsequently deleted, with the value   *)
(*            set last: <<key1, key2, value>>                              *)
(*   deleted  whether __delitem__ has been called                          *)
(*   nops     the number of calls made                                     *)
(***************************************************************************)
Self ==
    [TABLE_SIZES |-> TABLE_SIZES, internal_sizes |-> internal_sizes,
     array_outer |-> array_outer, count_outer |-> count_outer,
     size_index_outer |-> size_index_outer, exc |-> "none"]

\* no MountainManager field beside the table, no MountainOrganiser and no
\* Trail is built
NoMountains == highest_difficulty = 0 /\ organiser_list = <<>>
NoTrail ==
    /\ trail = <<>> /\ current_store = <<>> /\ following_stack = <<>>
    /\ added = <<>> /\ choices = <<>>

\* no InfiniteHashTable is built
NoInfiniteHashTable ==
    top_table = <<>> /\ count = 0 /\ level = 0 /\ NoMountains /\ NoTrail

\* __init__(sizes, internal_sizes)
Construct(sizes, isizes) ==
    LET s == DoubleKeyTable(sizes, isizes) IN
    /\ NoInfiniteHashTable
    /\ TABLE_SIZES = s.TABLE_SIZES
    /\ internal_sizes = s.internal_sizes
    /\ array_outer = s.array_outer
    /\ count_outer = s.count_outer
    /\ size_index_outer = s.size_index_outer
    /\ last = [op |-> "init", key1 |-> <<>>, key2 |-> <<>>, data |-> 0,
               exc |-> "none", grew_outer |-> FALSE, grew_inner |-> FALSE]
    /\ present = {}
    /\ deleted = FALSE
    /\ nops = 0

\* the capacity sequences given to the constructor: inner tables of 5 then 13
\* slots (the start of the sequence the class declares), or of 3 then 7
InternalSizes == {<<5, 13>>, <<3, 7>>}

\* an outer table of 5 then 13 slots
Init == \E isizes \in InternalSizes : Construct(<<5, 13>>, isizes)

\* a table that cannot grow
InitSingle == Construct(<<3>>, <<5, 13>>)

\* the capacity of the inner table held for key1 (0: key1 holds no outer slot)
inner_size(self, key1) ==
    LET slots == outer_slots(self, 0, FALSE, key1)
    IN IF slots = <<>> THEN 0 ELSE length(self.array_outer[slots[1]][2].array)

\* how the call that took the table from self to s ended
Outcome(op, key1, key2, data, s) ==
    [op |-> op, key1 |-> key1, key2 |-> key2, data |-> data, exc |-> s.exc,
     grew_outer |-> table_size(s) > table_size(Self),
     grew_inner |-> /\ inner_size(Self, key1) > 0
                    /\ inner_size(s, key1) > inner_size(Self, key1)]

Assign(s) ==
    /\ array_outer' = s.array_outer
    /\ count_outer' = s.count_outer
    /\ size_index_outer' = s.size_index_outer
    /\ UNCHANGED <<TABLE_SIZES, internal_sizes, top_table, count, level,
                   mountain_vars, trail_vars>>

Others(key1, key2) == {e \in present : e[1] # key1 \/ e[2] # key2}

\* table[key1, key2] = data
Set(key1, key2, data) ==
    /\ nops < MaxOps
    /\ last.exc # "NoReturn"
    /\ LET s == setitem(Self, key1, key2, data) IN
       /\ Assign(s)
       /\ last' = Outcome("set", key1, key2, data, s)
       /\ present' = IF s.exc = "none"
                     THEN Others(key1, key2) \cup {<<key1, key2, data>>}
                     ELSE present
    /\ nops' = nops + 1
    /\ UNCHANGED deleted

\* del table[key1, key2]
Delete(key1, key2) ==
    /\ nops < MaxOps
    /\ last.exc # "NoReturn"
    /\ LET s == delitem(Self, key1, key2) IN
       /\ Assign(s)
       /\ last' = Outcome("del", key1, key2, 0, s)
       /\ present' = IF s.exc = "none" THEN Others(key1, key2) ELSE present
    /\ nops' = nops + 1
    /\ deleted' = TRUE

Next ==
    \/ \E key1 \in Keys1, key2 \in Keys2, data \in Values : Set(key1, key2, data)
    \/ \E key1 \in Keys1, key2 \in Keys2 : Delete(key1, key2)

Spec == Init /\ [][Next]_vars

\* the calls made on the table that cannot grow: four primary keys, "d" too
Keys1Single == Keys1 \cup {<<100>>}

NextSingle ==
    \/ \E key1 \in Keys1Single, key2 \in Keys2 : Set(key1, key2, 1)
    \/ \E key1 \in Keys1Single, key2 \in Keys2 : Delete(key1, key2)

SpecSingle == InitSingle /\ [][NextSingle]_vars

(***************************************************************************)
(* What a caller sees of the table.                                        *)
(***************************************************************************)
\* the primary keys held in the outer array
PrimaryKeys(self) ==
    {self.array_outer[i][1] : i \in {j \in DOMAIN self.array_outer :
                                         self.array_outer[j] # None}}

\* a list as a multiset: how many times each of its elements occurs
BagOf(list) ==
    [x \in {list[n] : n \in 1..Len(list)} |->
        Cardinality({n \in 1..Len(list) : list[n] = x})]

\* the multiset of the values of a set of <<key1, key2, value>> entries
ValueBag(entries) ==
    [v \in {e[3] : e \in entries} |-> Cardinality({e \in entries : e[3] = v})]

AllKeys1 == Keys1 \cup Keys1Single

\* the content keys() and values() give: primary keys, and the secondary keys
\* and values under each, whatever the slots
SameContent(s, t) ==
    /\ BagOf(keys_all(s)) = BagOf(keys_all(t))
    /\ BagOf(values_all(s)) = BagOf(values_all(t))
    /\ \A k \in AllKeys1 :
          /\ BagOf(keys(s, k)) = BagOf(keys(t, k))
          /\ BagOf(values(s, k)) = BagOf(values(t, k))

\* keys(), keys(k) and values(k) for every k, and len(table)
Visible(self) ==
    <<keys_all(self), [k \in AllKeys1 |-> <<keys(self, k), values(self, k)>>],
      len(self)>>

(***************************************************************************)
(* The claims.                                                             *)
(***************************************************************************)

\* C1: in a run of set calls with no delete in it, get(k1, k2) called right
\* after set(k1, k2, v) has returned gives v, whether or not the set rehashed
\* the outer table or the inner table.
C1_GetAfterSet ==
    (last.op = "set" /\ last.exc = "none" /\ ~deleted)
        => getitem(Self, last.key1, last.key2)
               = [exc |-> "none", value |-> last.data]

\* a set, in a run without delete, that grew the outer table, and the get
C1_Witness ==
    /\ last.op = "set" /\ last.exc = "none" /\ ~deleted
    /\ last.grew_outer
    /\ Cardinality(present) > Cardinality(PrimaryKeys(Self))
    /\ getitem(Self, last.key1, last.key2).value = last.data

\* C2: len(table) is the number of distinct (key1, key2) pairs that were set
\* and not deleted since.
C2_LenCountsPairs == len(Self) = Cardinality(present)

\* C3: a delete of a present pair that returns removes that pair only: every
\* other pair that get found before the call is found after it, with the same
\* value.
C3_DeleteKeepsOthers ==
    [][(last'.op = "del" /\ last'.exc = "none")
          => \A k1 \in Keys1, k2 \in Keys2 :
                (<<k1, k2>> # <<last'.key1, last'.key2>> /\ contains(Self, k1, k2))
                    => getitem(Self', k1, k2) = getitem(Self, k1, k2)]_vars

\* C4: once delete(k1, k2) has returned, contains((k1, k2)) is false and
\* get(k1, k2) raises KeyError.
C4_DeletedIsGone ==
    (last.op = "del" /\ last.exc = "none")
        => /\ ~contains(Self, last.key1, last.key2)
           /\ getitem(Self, last.key1, last.key2).exc = "KeyError"

\* C5: a set that grows the outer table keeps the content: after the call the
\* primary keys, the secondary keys under each and the values are those the
\* table held once the pair was assigned, before the rehash.
C5_RehashKeepsContent ==
    [][(last'.op = "set" /\ last'.exc = "none" /\ last'.grew_outer)
          => SameContent(store(Self, last'.key1, last'.key2, last'.data),
                         Self')]_vars

\* C6: with no further capacity in the outer sequence, a set whose assignment
\* leaves the outer table above half occupancy raises nothing, and leaves the
\* outer capacity and the content as assigned.
C6_ExhaustedRehashIsNoOp ==
    [][LET st == store(Self, last'.key1, last'.key2, last'.data) IN
       (/\ last'.op = "set"
        /\ st.exc = "none"
        /\ ~allocates(st)
        /\ 2 * st.count_outer > table_size(st))
          => /\ last'.exc = "none"
             /\ table_size(Self') = table_size(Self)
             /\ SameContent(st, Self')]_vars

\* C7: on a table built with the single outer capacity N, where every call so
\* far set a pair under a new primary key, setting a pair under one more new
\* primary key succeeds while fewer than N are held, and raises FullError once
\* N are held.
C7_SingleCapacity ==
    [][(/\ last'.op = "set"
        /\ Len(TABLE_SIZES) = 1
        /\ nops = Cardinality(PrimaryKeys(Self))
        /\ ~deleted
        /\ last'.key1 \notin PrimaryKeys(Self))
          => IF Cardinality(PrimaryKeys(Self)) < TABLE_SIZES[1]
             THEN last'.exc = "none"
             ELSE last'.exc = "FullError"]_vars

\* C8: a set that raises leaves keys(), keys(k), values(k) and len(table) as
\* they were.
C8_FailedSetChangesNothing ==
    [][(last'.op = "set" /\ last'.exc # "none")
          => Visible(Self') = Visible(Self)]_vars

\* C9: a delete of a pair that get does not find (key1 absent, or key2 absent
\* under key1) raises KeyError and leaves the outer array, every inner table
\* and its count, and count_outer as they were.
C9_DeleteAbsent ==
    [][(last'.op = "del" /\ ~contains(Self, last'.key1, last'.key2))
          => /\ last'.exc = "KeyError"
             /\ array_outer' = array_outer
             /\ count_outer' = count_outer
             /\ size_index_outer' = size_index_outer
             /\ len(Self') = len(Self)]_vars

\* a delete that raised KeyError for a secondary key absent under a primary
\* key that holds other pairs
C9_Witness ==
    /\ last.op = "del" /\ last.exc = "KeyError"
    /\ last.key1 \in PrimaryKeys(Self)
    /\ count_outer > 1

\* C10: keys() lists each primary key with a pair set and not deleted exactly
\* once; keys(k1) lists exactly the secondary keys of those pairs under k1;
\* values(k1) lists their values, in the order of keys(k1); values() lists the
\* values of all of them.
C10_Enumerations ==
    /\ BagOf(keys_all(Self)) = [k \in {e[1] : e \in present} |-> 1]
    /\ BagOf(values_all(Self)) = ValueBag(present)
    /\ \A k1 \in Keys1 :
          /\ BagOf(keys(Self, k1))
                = [k2 \in {e[2] : e \in {x \in present : x[1] = k1}} |-> 1]
          /\ Len(values(Self, k1)) = Len(keys(Self, k1))
          /\ \A n \in 1..Len(keys(Self, k1)) :
                <<k1, keys(Self, k1)[n], values(Self, k1)[n]>> \in present

\* the entries an inner table holds, whatever its count field says
entries(tab) == {j \in DOMAIN tab.array : tab.array[j] # None}

\* the outer slots in use
occupied(self) == {i \in DOMAIN self.array_outer : self.array_outer[i] # None}

\* the table as the lookup-mode probe of (key1, key2) leaves it
probed(self, key1, key2) == linear_probe(self, key1, key2, FALSE).self

\* C11: contains((k1, k2)) is true exactly for the pairs set and not deleted
\* since, and the probe it makes leaves the outer array, every inner table
\* and its count, and count_outer as they were.
C11_ContainsExact ==
    \A k1 \in Keys1, k2 \in Keys2 :
        /\ contains(Self, k1, k2) <=> (\E v \in Values : <<k1, k2, v>> \in present)
        /\ probed(Self, k1, k2).array_outer = array_outer
        /\ probed(Self, k1, k2).count_outer = count_outer
        /\ probed(Self, k1, k2).size_index_outer = size_index_outer

C13_NoEmptyInner ==
    (last.exc = "none") =>
        /\ \A i \in occupied(Self) :
              /\ entries(array_outer[i][2]) # {}
              /\ array_outer[i][2].count > 0
        /\ (last.op = "del" /\ \A e \in present : e[1] # last.key1)
              => last.key1 \notin PrimaryKeys(Self)

(***************************************************************************)
(* InfiniteHashTable (src/infinite_hash_table.py).                         *)
(***************************************************************************)
TABLE_SIZE == 27

\* ord('*')
Star == 42

\* deepest level a probe may open a table at before the call is reported as
\* not returning
MaxLevel == 5

\* a stored value, and a stored table, with their run-time types
Leaf(value) == [type |-> "value", v |-> value]
Table(array) == [type |-> "ArrayR", v |-> array]
isArrayR(value) == value.type = "ArrayR"

\* __init__
InfiniteHashTable ==
    [top_table |-> ArrayR(TABLE_SIZE), count |-> 0, level |-> 0, exc |-> "none"]

\* key[level], a negative level indexing from the end of the key
char_at(key, lvl) == key[IF lvl < 0 THEN Len(key) + lvl + 1 ELSE lvl + 1]

\* hash(key), at self.level
ih_hash(self, key) ==
    IF self.level < Len(key)
    THEN char_at(key, self.level) % (TABLE_SIZE - 1)
    ELSE TABLE_SIZE - 1

\* the table reached from table top through the slots of path
RECURSIVE table_at(_, _)
table_at(top, path) ==
    IF path = <<>> THEN top
    ELSE table_at(top[Head(path)][2].v, Tail(path))

\* table top once slot position of the table at path is assigned
RECURSIVE assign_at(_, _, _, _)
assign_at(top, path, position, slot) ==
    IF path = <<>> THEN [top EXCEPT ![position] = slot]
    ELSE [top EXCEPT ![Head(path)] =
             <<@[1], Table(assign_at(@[2].v, Tail(path), position, slot))>>]

\* other_key[:level + 1] + '*'
next_table_key(other_key, lvl) ==
    SubSeq(other_key, 1, IF lvl + 1 < Len(other_key) THEN lvl + 1
                         ELSE Len(other_key)) \o <<Star>>

\* the insert-mode conflict of _infinite_probe: the pair other found at
\* position of current_table moves into a new table one level down
moved_down(self, current_table, position, other) ==
    LET down == [self EXCEPT !.level = @ + 1] IN
    [down EXCEPT !.top_table =
        assign_at(@, current_table, position,
                  <<next_table_key(other[1], self.level),
                    Table([ArrayR(TABLE_SIZE) EXCEPT
                              ![ih_hash(down, other[1])] = other])>>)]

RECURSIVE probe_loop(_, _, _, _, _, _)

\* one round of the while loop of _infinite_probe on the table current
\* (current_table), previous being previous_table and slot being
\* current_table[position]
probe_round(self, key, is_insert, is_delete, current, previous, position, slot) ==
    IF slot = None
    THEN [self |-> IF is_insert THEN self ELSE raise(self, "KeyError"),
          table |-> current]
    ELSE IF slot[1] = key
    THEN IF is_delete
         THEN [self |-> [self EXCEPT !.level = @ - 1], table |-> previous]
         ELSE [self |-> self, table |-> current]
    ELSE IF isArrayR(slot[2])
    THEN probe_loop([self EXCEPT !.level = @ + 1], key, is_insert, is_delete,
                    Append(current, position), current)
    ELSE IF ~is_insert
    THEN [self |-> raise(self, "KeyError"), table |-> current]
    ELSE IF self.level = MaxLevel
    THEN [self |-> raise(self, "NoReturn"), table |-> current]
    ELSE probe_loop(moved_down(self, current, position, slot), key,
                    is_insert, is_delete, Append(current, position),
                    previous)

\* the while loop of _infinite_probe
probe_loop(self, key, is_insert, is_delete, current_table, previous_table) ==
    probe_round(self, key, is_insert, is_delete, current_table, previous_table,
                ih_hash(self, key),
                table_at(self.top_table, current_table)[ih_hash(self, key)])

\* the probe without line 66: the while loop starts at the level the last
\* call left
infinite_probe_from_level(self, key, is_insert, is_delete) ==
    probe_loop(self, key, is_insert, is_delete, <<>>, <<>>)

\* _infinite_probe(key, is_insert, is_delete): [self, table]
infinite_probe(self, key, is_insert, is_delete) ==
    probe_loop([self EXCEPT !.level = 0], key, is_insert, is_delete, <<>>, <<>>)

\* the slot of key in the table the probe p returned
slot_at(p, key) == table_at(p.self.top_table, p.table)[ih_hash(p.self, key)]

\* __getitem__ after the probe: [self, value]
ih_read(p, key) ==
    IF p.self.exc # "none" THEN [self |-> p.self, value |-> None]
    ELSE [self |-> p.self, value |-> slot_at(p, key)[2]]

\* __getitem__
ih_getitem(self, key) == ih_read(infinite_probe(self, key, FALSE, FALSE), key)

\* __setitem__ after the probe
ih_store(p, key, value) ==
    IF p.self.exc # "none" THEN p.self
    ELSE [p.self EXCEPT
            !.count = IF slot_at(p, key) = None THEN @ + 1 ELSE @,
            !.top_table = assign_at(@, p.table, ih_hash(p.self, key),
                                    <<key, Leaf(value)>>)]

\* __setitem__
ih_setitem(self, key, value) ==
    ih_store(infinite_probe(self, key, TRUE, FALSE), key, value)

\* __contains__
ih_contains(self, key) == ih_getitem(self, key).self.exc # "KeyError"

\* __len__
ih_len(self) == self.count

\* get_location after the probe: [self, locations]
located(p, key) ==
    IF p.self.exc # "none" THEN [self |-> p.self, locations |-> <<>>]
    ELSE [self |-> p.self,
          locations |-> [i \in 1..(p.self.level + 1) |->
                            ih_hash([p.self EXCEPT !.level = i - 1], key)]]

\* get_location
get_location(self, key) == located(infinite_probe(self, key, FALSE, FALSE), key)

\* the slots in use of a table
used(table) == {i \in DOMAIN table : table[i] # None}

RECURSIVE collapse(_, _, _)

\* the end of one round of the collapsing loop of __delitem__: p is the probe
\* of other's key in delete mode, other replaces the slot of its key in the
\* table the probe returned, and the loop goes on from that table
collapse_into(p, other, n) ==
    IF p.self.exc # "none" THEN p.self
    ELSE collapse([p.self EXCEPT !.top_table =
                      assign_at(@, p.table, ih_hash(p.self, other[1]), other)],
                  p.table, n - 1)

\* one round of the collapsing loop on current_table, whose slots in use are
\* slots: the method returns when there are two of them or a table among them;
\* with none of them other_key is None, and the probe of None resets the level
\* before its hash raises a TypeError on len(None)
collapse_round(self, current_table, slots, table, n) ==
    IF Cardinality(slots) > 1 THEN self
    ELSE IF slots = {} THEN raise([self EXCEPT !.level = 0], "TypeError")
    ELSE IF isArrayR(table[CHOOSE i \in slots : TRUE][2]) THEN self
    ELSE collapse_into(infinite_probe(self, table[CHOOSE i \in slots : TRUE][1],
                                      FALSE, TRUE),
                       table[CHOOSE i \in slots : TRUE], n)

\* the collapsing loop of __delitem__, n rounds left
collapse(self, current_table, n) ==
    IF n = 0 THEN self
    ELSE collapse_round(self, current_table,
                        used(table_at(self.top_table, current_table)),
                        table_at(self.top_table, current_table), n)

\* __delitem__ after the probe
ih_delete_at(p, key) ==
    IF p.self.exc # "none" THEN p.self
    ELSE collapse([p.self EXCEPT
                      !.top_table = assign_at(@, p.table, ih_hash(p.self, key),
                                              None),
                      !.count = @ - 1],
                  p.table, p.self.level)

\* __delitem__
ih_delitem(self, key) ==
    ih_delete_at(infinite_probe(self, key, FALSE, FALSE), key)

(***************************************************************************)
(* The InfiniteHashTable as a state machine: one table, and the calls made *)
(* on it.                                                                  *)
(*   last     the last call and how it ended                               *)
(*   present  the <<key, value>> pairs set and not deleted since           *)
(***************************************************************************)
\* the object the variables hold, between two calls
Infinite ==
    [top_table |-> top_table, count |-> count, level |-> level, exc |-> "none"]

\* no DoubleKeyTable is built
NoDoubleKeyTable ==
    /\ TABLE_SIZES = <<>> /\ internal_sizes = <<>> /\ array_outer = <<>>
    /\ count_outer = 0 /\ size_index_outer = 0
    /\ NoMountains /\ NoTrail

\* InfiniteHashTable()
InitInfinite ==
    /\ NoDoubleKeyTable
    /\ top_table = InfiniteHashTable.top_table
    /\ count = InfiniteHashTable.count
    /\ level = InfiniteHashTable.level
    /\ last = [op |-> "init", key |-> <<>>, data |-> 0, exc |-> "none"]
    /\ present = {}
    /\ deleted = FALSE
    /\ nops = 0

\* keys "l", "li", "lin", "le", which share prefixes; "l*", the name
\* _infinite_probe gives the table it opens under "l"; and "R", whose
\* character has the hash of "l" (82 = 108 - 26)
InfiniteKeys ==
    {<<108>>, <<108, 105>>, <<108, 105, 110>>, <<108, 101>>, <<108, Star>>,
     <<82>>}

AssignInfinite(s) ==
    /\ top_table' = s.top_table
    /\ count' = s.count
    /\ level' = s.level
    /\ UNCHANGED <<TABLE_SIZES, internal_sizes, array_outer, count_outer,
                   size_index_outer, mountain_vars, trail_vars>>

Without(key) == {e \in present : e[1] # key}

\* table[key] = value
InfiniteSet(key, value) ==
    /\ nops < MaxOps
    /\ last.exc # "NoReturn"
    /\ LET s == ih_setitem(Infinite, key, value) IN
       /\ AssignInfinite(s)
       /\ last' = [op |-> "set", key |-> key, data |-> value, exc |-> s.exc]
       /\ present' = IF s.exc = "none" THEN Without(key) \cup {<<key, value>>}
                     ELSE present
    /\ nops' = nops + 1
    /\ UNCHANGED deleted

\* del table[key]
InfiniteDelete(key) ==
    /\ nops < MaxOps
    /\ last.exc # "NoReturn"
    /\ LET s == ih_delitem(Infinite, key) IN
       /\ AssignInfinite(s)
       /\ last' = [op |-> "del", key |-> key, data |-> 0, exc |-> s.exc]
       /\ present' = IF s.exc = "none" THEN Without(key) ELSE present
    /\ nops' = nops + 1
    /\ deleted' = TRUE

NextInfinite ==
    \/ \E key \in InfiniteKeys, value \in Values : InfiniteSet(key, value)
    \/ \E key \in InfiniteKeys : InfiniteDelete(key)

SpecInfinite == InitInfinite /\ [][NextInfinite]_vars

\* the leaves of the tree under table, each with the path of its table and
\* its slot
RECURSIVE leaves(_, _)
leaves(table, path) ==
    UNION {IF isArrayR(table[i][2])
           THEN leaves(table[i][2].v, Append(path, i))
           ELSE {[key |-> table[i][1], value |-> table[i][2].v,
                  path |-> path, position |-> i]} : i \in used(table)}

\* the tables of the tree reached through a slot of another table
RECURSIVE level_tables(_)
level_tables(table) ==
    UNION {{table[i][2].v} \cup level_tables(table[i][2].v) :
              i \in {j \in used(table) : isArrayR(table[j][2])}}

\* the keys set and not deleted since
stored == {e[1] : e \in present}

\* the table reached by following the slot indices of path from table, or
\* None when a slot on the way holds no table
RECURSIVE followed(_, _)
followed(table, path) ==
    IF path = <<>> THEN table
    ELSE IF table[Head(path)] = None THEN None
    ELSE IF ~isArrayR(table[Head(path)][2]) THEN None
    ELSE followed(table[Head(path)][2].v, Tail(path))

\* whether slot holds the leaf of key
holds_leaf(slot, key) ==
    /\ slot # None
    /\ slot[1] = key
    /\ ~isArrayR(slot[2])

\* len(get_location(key)), 0 when it raises
location_length(self, key) == Len(get_location(self, key).locations)

\* C14: get(k) returns the value most recently set for k, for every key k set
\* and not deleted since, after every call that returned or raised.
C14_GetReturnsLastSet ==
    (last.exc # "NoReturn") =>
        \A e \in present :
            /\ ih_getitem(Infinite, e[1]).self.exc = "none"
            /\ ~isArrayR(ih_getitem(Infinite, e[1]).value)
            /\ ih_getitem(Infinite, e[1]).value.v = e[2]

\* C15: len(table) is the number of distinct keys stored as leaves in the
\* tree, which are the keys set and not deleted since.
C15_LenCountsLeaves ==
    (last.exc # "NoReturn") =>
        /\ ih_len(Infinite) = Cardinality({l.key : l \in leaves(top_table, <<>>)})
        /\ ih_len(Infinite) = Cardinality(stored)

\* C16: after every set or delete that returned, no table reached through a
\* slot of another table holds exactly one leaf and no table.
C16_NoSingleLeafTable ==
    (last.exc = "none") =>
        \A table \in level_tables(top_table) :
            ~(/\ Cardinality(used(table)) = 1
              /\ \A i \in used(table) : ~isArrayR(table[i][2]))

\* C17: a delete of k that returns never makes get_location longer for a key
\* that stays stored, and makes it strictly shorter for the key s that the
\* delete leaves as the only entry, a leaf, of the table that held k, that
\* table being one below top_table (a key of top_table has the shortest
\* location there is).
C17_CollapseShortens ==
    [][(last'.op = "del" /\ last'.exc = "none")
          => \A s \in {e[1] : e \in present'} :
                LET held == leaves(top_table, <<>>) IN
                /\ location_length(Infinite', s) <= location_length(Infinite, s)
                /\ (\E k \in held, l \in held :
                       /\ k.key = last'.key /\ l.key = s /\ l.path = k.path
                       /\ k.path # <<>>
                       /\ used(table_at(top_table, k.path))
                              = {k.position, l.position})
                      => location_length(Infinite', s)
                             < location_length(Infinite, s)]_vars

\* C18: for a stored key k get_location(k) is [hash(k, 0), ..., hash(k, d)],
\* the first d slots each hold a table and the last one, in the table they
\* lead to, holds k's leaf; for a key that is not stored it raises KeyError.
C18_LocationIsPath ==
    (last.exc # "NoReturn") =>
        \A k \in InfiniteKeys :
            LET r == get_location(Infinite, k)
                n == Len(r.locations) IN
            IF k \in stored
            THEN /\ r.self.exc = "none"
                 /\ n >= 1
                 /\ \A i \in 1..n :
                       r.locations[i] = ih_hash([Infinite EXCEPT !.level = i - 1], k)
                 /\ followed(top_table, SubSeq(r.locations, 1, n - 1)) # None
                 /\ holds_leaf(followed(top_table, SubSeq(r.locations, 1, n - 1))
                                   [r.locations[n]], k)
            ELSE r.self.exc = "KeyError"

\* C19: for every key that is not stored, get raises KeyError and contains is
\* false; contains is true exactly for the stored keys.
C19_AbsentKeyError ==
    (last.exc # "NoReturn") =>
        \A k \in InfiniteKeys :
            /\ k \notin stored => ih_getitem(Infinite, k).self.exc = "KeyError"
            /\ ih_contains(Infinite, k) <=> k \in stored

\* C20: every set returns, and every stored key rests at a depth of at most
\* the length of the key.
C20_SetTerminates ==
    /\ last.exc # "NoReturn"
    /\ \A l \in leaves(top_table, <<>>) : Len(l.path) <= Len(l.key)

\* whether the call whose result is r left the tree and the count of self as
\* they were
untouched(self, r) == r.top_table = self.top_table /\ r.count = self.count

\* C21: get, contains and get_location of any key, and a delete of a key that
\* is not stored, leave every slot of every table of the tree and len(table)
\* unchanged; the delete raises KeyError.
C21_LookupsChangeNothing ==
    [][/\ \A k \in InfiniteKeys :
             /\ untouched(Infinite', ih_getitem(Infinite', k).self)
             /\ untouched(Infinite', get_location(Infinite', k).self)
       /\ (last'.op = "del" /\ last'.key \notin stored)
             => /\ last'.exc = "KeyError"
                /\ untouched(Infinite, Infinite')]_vars

\* keys "li", "lin", "lim", which meet two tables below top_table, and "l*",
\* the name of the table under "l"
LevelKeys == {<<108, 105>>, <<108, 105, 110>>, <<108, 105, 109>>, <<108, Star>>}

NextLevels ==
    \/ \E key \in LevelKeys, value \in Values : InfiniteSet(key, value)
    \/ \E key \in LevelKeys : InfiniteDelete(key)

SpecLevels == InitInfinite /\ [][NextLevels]_vars

\* the values self.level may hold between two calls: -1 after a probe in
\* delete mode that matched in top_table, up to MaxLevel after a deep probe
Levels == -1..MaxLevel

\* self as an earlier call that ended at level lvl would have left it
left_at(self, lvl) == [self EXCEPT !.level = lvl]

\* whether two calls ended alike: same exception, same tree, same count
same_result(a, b) ==
    a.exc = b.exc /\ a.top_table = b.top_table /\ a.count = b.count

\* whether two __getitem__ calls ended alike and returned the same value
same_read(a, b) ==
    /\ same_result(a.self, b.self)
    /\ (a.self.exc = "none") =>
          /\ a.value.type = b.value.type
          /\ a.value.v = b.value.v

\* whether two get_location calls ended alike and returned the same list
same_location(a, b) ==
    same_result(a.self, b.self) /\ a.locations = b.locations

\* C22: the value an earlier call left in self.level changes nothing: on the
\* same tree and count, get, contains, get_location, set and delete return the
\* same result and produce the same tree whatever self.level holds.
C22_LevelNeverLeaks ==
    (last.exc # "NoReturn") =>
        \A lvl \in Levels, k \in InfiniteKeys \cup LevelKeys :
            /\ same_read(ih_getitem(left_at(Infinite, lvl), k),
                         ih_getitem(Infinite, k))
            /\ ih_contains(left_at(Infinite, lvl), k) = ih_contains(Infinite, k)
            /\ same_location(get_location(left_at(Infinite, lvl), k),
                             get_location(Infinite, k))
            /\ same_result(ih_delitem(left_at(Infinite, lvl), k),
                           ih_delitem(Infinite, k))
            /\ \A v \in Values :
                  same_result(ih_setitem(left_at(Infinite, lvl), k, v),
                              ih_setitem(Infinite, k, v))

\* a lookup that raised KeyError two tables below top_table left self.level
\* at 2
C22_Witness ==
    level = 2 /\ last.exc = "KeyError" /\ count >= 2

\* a table whose outer and inner arrays can both grow twice: 3, 5, 13 outer
\* slots and 3, 7, 13 inner slots
InitLoad == Construct(<<3, 5, 13>>, <<3, 7, 13>>)

SpecLoad == InitLoad /\ [][Next]_vars

\* whether a larger capacity is left for the inner table tab
lp_allocates(tab) == tab.size_index + 1 < Len(tab.TABLE_SIZES)

\* C23: after a set that returned, while a larger outer capacity is left the
\* outer slots in use are at most half of array_outer, and every inner table
\* held in array_outer that has a larger capacity left has a count of at most
\* half its array.
C23_LoadAtMostHalf ==
    (last.op = "set" /\ last.exc = "none") =>
        /\ allocates(Self)
              => 2 * Cardinality(occupied(Self)) <= table_size(Self)
        /\ \A i \in occupied(Self) :
              lp_allocates(array_outer[i][2])
                  => 2 * array_outer[i][2].count
                         <= length(array_outer[i][2].array)

\* a set made the outer array grow to 5 slots, with 13 left to grow to, and
\* one of the inner tables re-created by that rehash holds two pairs in an
\* array that grew to 7 slots, with 13 left to grow to
C23_Witness ==
    /\ last.op = "set" /\ last.exc = "none" /\ last.grew_outer
    /\ allocates(Self)
    /\ \E i \in occupied(Self) :
          /\ lp_allocates(array_outer[i][2])
          /\ array_outer[i][2].count = 2
          /\ length(array_outer[i][2].array) = 7

\* C24: after every set or delete that returned, count_outer is the number
\* of slots of array_outer that are not None, and the count of every inner
\* table is the number of slots of its array that are not None.
C24_CountsMatchSlots ==
    (last.op \in {"set", "del"} /\ last.exc = "none") =>
        /\ count_outer = Cardinality(occupied(Self))
        /\ \A i \in occupied(Self) :
              array_outer[i][2].count = Cardinality(entries(array_outer[i][2]))

\* hash(key) at level d
hash_at(key, d) == ih_hash(left_at(Infinite, d), key)

\* C25: after every call that returned or raised, each leaf of the tree sits
\* at slot hash(k, d) of its table, d being the depth of the table, and on
\* the way down to it the slot taken at depth i is hash(k, i): every key
\* below the table of slot p at depth i has hash(key, i) = p. This covers the
\* leaf a collision moved into a new table one level down.
C25_LeavesAtTheirHash ==
    (last.exc # "NoReturn") =>
        \A l \in leaves(top_table, <<>>) :
            /\ l.position = hash_at(l.key, Len(l.path))
            /\ \A i \in 1..Len(l.path) : l.path[i] = hash_at(l.key, i - 1)

\* del table[key] right after table[key] = value
set_then_delete(self, key, value) ==
    ih_delitem(left_at(ih_setitem(self, key, value), 0), key)

\* C26: for every key k that is not stored, a set of k that returns followed
\* at once by a delete of k leaves the tree (every slot of every table) and
\* len(table) as they were before the set, and the delete returns.
C26_SetThenDeleteRestores ==
    (last.exc # "NoReturn") =>
        \A k \in InfiniteKeys \ stored, v \in Values :
            (ih_setitem(Infinite, k, v).exc = "none") =>
                /\ set_then_delete(Infinite, k, v).exc = "none"
                /\ untouched(Infinite, set_then_delete(Infinite, k, v))

(***************************************************************************)
(* Mountain and MountainManager. A mountain is the record                  *)
(* [name, difficulty_level, length]; a manager is the record               *)
(* [manager_table, highest_difficulty], manager_table being a              *)
(* DoubleKeyTable whose exc field tells how the manager's call ended.      *)
(***************************************************************************)
\* Mountain(name, difficulty_level, length)
Mountain(name, difficulty_level, len_) ==
    [name |-> name, difficulty_level |-> difficulty_level, length |-> len_]

\* ord('@')
DIFFICULTY_CHAR == 64

\* the start of the capacity sequence DoubleKeyTable declares, which
\* DoubleKeyTable() uses for the outer array and, through LinearProbeTable,
\* for the inner ones
DefaultSizes == <<5, 13, 29, 53>>

\* diff * self.DIFFICULTY_CHAR
difficulty_key(diff) == [i \in 1..diff |-> DIFFICULTY_CHAR]

\* __init__
MountainManager ==
    [manager_table |-> DoubleKeyTable(DefaultSizes, DefaultSizes),
     highest_difficulty |-> 0]

\* add_mountain after the assignment into manager_table
added_to(self, table, mountain) ==
    IF table.exc # "none" THEN [self EXCEPT !.manager_table = table]
    ELSE [manager_table |-> table,
          highest_difficulty |->
              IF mountain.difficulty_level > self.highest_difficulty
              THEN mountain.difficulty_level
              ELSE self.highest_difficulty]

\* add_mountain
add_mountain(self, mountain) ==
    added_to(self,
             setitem(self.manager_table,
                     difficulty_key(mountain.difficulty_level),
                     mountain.name, mountain),
             mountain)

\* remove_mountain
remove_mountain(self, mountain) ==
    [self EXCEPT !.manager_table =
        delitem(@, difficulty_key(mountain.difficulty_level), mountain.name)]

\* edit_mountain after remove_mountain(old)
edited(removed_old, new) ==
    IF removed_old.manager_table.exc # "none" THEN removed_old
    ELSE add_mountain(removed_old, new)

\* edit_mountain
edit_mountain(self, old, new) == edited(remove_mountain(self, old), new)

\* mountains_with_difficulty
mountains_with_difficulty(self, diff) ==
    values(self.manager_table, difficulty_key(diff))

\* the loop of group_by_difficulty from difficulty i on
RECURSIVE group_from(_, _)
group_from(self, i) ==
    IF i > self.highest_difficulty THEN <<>>
    ELSE IF mountains_with_difficulty(self, i) # <<>>
    THEN <<mountains_with_difficulty(self, i)>> \o group_from(self, i + 1)
    ELSE group_from(self, i + 1)

\* group_by_difficulty
group_by_difficulty(self) == group_from(self, 0)

(***************************************************************************)
(* The MountainManager as a state machine: one manager, and the calls made *)
(* on it with mountains whose names stay distinct.                         *)
(*   present  the mountains added and not removed since                    *)
(***************************************************************************)
\* the object the variables hold, between two calls
Manager == [manager_table |-> Self, highest_difficulty |-> highest_difficulty]

\* MountainManager()
InitManager ==
    /\ TABLE_SIZES = MountainManager.manager_table.TABLE_SIZES
    /\ internal_sizes = MountainManager.manager_table.internal_sizes
    /\ array_outer = MountainManager.manager_table.array_outer
    /\ count_outer = MountainManager.manager_table.count_outer
    /\ size_index_outer = MountainManager.manager_table.size_index_outer
    /\ highest_difficulty = MountainManager.highest_difficulty
    /\ organiser_list = <<>>
    /\ top_table = <<>> /\ count = 0 /\ level = 0
    /\ NoTrail
    /\ last = [op |-> "init", mountain |-> <<>>, exc |-> "none"]
    /\ present = {}
    /\ deleted = FALSE
    /\ nops = 0

\* mountains "k", "b" and "f" of difficulty 1, 2 or 3
Difficulties == 1..3
Mountains ==
    {Mountain(name, d, 1) : name \in {<<107>>, <<98>>, <<102>>},
                            d \in Difficulties}

AssignManager(s) ==
    /\ array_outer' = s.manager_table.array_outer
    /\ count_outer' = s.manager_table.count_outer
    /\ size_index_outer' = s.manager_table.size_index_outer
    /\ highest_difficulty' = s.highest_difficulty
    /\ UNCHANGED <<TABLE_SIZES, internal_sizes, top_table, count, level,
                   organiser_list, trail_vars>>

\* the names of the mountains of a set
names(mountains) == {m.name : m \in mountains}

\* manager.add_mountain(mountain), the name not being in use
AddMountain(mountain) ==
    /\ nops < MaxOps
    /\ last.exc # "NoReturn"
    /\ mountain.name \notin names(present)
    /\ LET s == add_mountain(Manager, mountain) IN
       /\ AssignManager(s)
       /\ last' = [op |-> "add", mountain |-> mountain,
                   exc |-> s.manager_table.exc]
       /\ present' = IF s.manager_table.exc = "none"
                     THEN present \cup {mountain} ELSE present
    /\ nops' = nops + 1
    /\ UNCHANGED deleted

\* manager.remove_mountain(mountain), the mountain having been added
RemoveMountain(mountain) ==
    /\ nops < MaxOps
    /\ last.exc # "NoReturn"
    /\ mountain \in present
    /\ LET s == remove_mountain(Manager, mountain) IN
       /\ AssignManager(s)
       /\ last' = [op |-> "remove", mountain |-> mountain,
                   exc |-> s.manager_table.exc]
       /\ present' = IF s.manager_table.exc = "none"
                     THEN present \ {mountain} ELSE present
    /\ nops' = nops + 1
    /\ deleted' = TRUE

\* manager.edit_mountain(old, new), old having been added and the name of new
\* being that of old or not in use
EditMountain(old, new) ==
    /\ nops < MaxOps
    /\ last.exc # "NoReturn"
    /\ old \in present
    /\ new.name \notin names(present \ {old})
    /\ LET r == remove_mountain(Manager, old)
           s == edited(r, new) IN
       /\ AssignManager(s)
       /\ last' = [op |-> "edit", mountain |-> new,
                   exc |-> s.manager_table.exc]
       /\ present' = IF r.manager_table.exc # "none" THEN present
                     ELSE IF s.manager_table.exc # "none" THEN present \ {old}
                     ELSE (present \ {old}) \cup {new}
    /\ nops' = nops + 1
    /\ deleted' = TRUE

NextManager ==
    \/ \E mountain \in Mountains : AddMountain(mountain)
    \/ \E mountain \in Mountains : RemoveMountain(mountain)
    \/ \E old \in Mountains, new \in Mountains : EditMountain(old, new)

SpecManager == InitManager /\ [][NextManager]_vars

\* the elements of a list
listed(list) == {list[n] : n \in 1..Len(list)}

\* whether list holds exactly the mountains of the set, each once
lists_exactly(list, mountains) ==
    listed(list) = mountains /\ Len(list) = Cardinality(mountains)

\* the mountains of difficulty d added and not removed since
present_with(d) == {m \in present : m.difficulty_level = d}

\* C27: after every call that returned or raised, mountains_with_difficulty(d)
\* lists exactly the mountains of difficulty d added and not removed since,
\* and group_by_difficulty lists exactly these lists that are not empty, in
\* ascending order of difficulty.
C27_ManagerListsMountains ==
    (last.exc # "NoReturn") =>
        /\ \A d \in 0..(highest_difficulty + 1) :
              lists_exactly(mountains_with_difficulty(Manager, d),
                            present_with(d))
        /\ Len(group_by_difficulty(Manager))
              = Cardinality({m.difficulty_level : m \in present})
        /\ \A i \in 1..Len(group_by_difficulty(Manager)) :
              \E d \in Difficulties :
                 /\ Cardinality({e \in Difficulties :
                                    e < d /\ present_with(e) # {}}) = i - 1
                 /\ present_with(d) # {}
                 /\ lists_exactly(group_by_difficulty(Manager)[i],
                                  present_with(d))

(***************************************************************************)
(* MountainOrganiser. mergesort of algorithms.mergesort is not among the   *)
(* source files; it is modelled as the sorting routine it is used as: a    *)
(* merge sort that returns the elements of its argument in ascending       *)
(* order, equal elements in the order they came in.                        *)
(***************************************************************************)
\* a < b on Python strings
RECURSIVE str_lt(_, _)
str_lt(a, b) ==
    IF b = <<>> THEN FALSE
    ELSE IF a = <<>> THEN TRUE
    ELSE IF Head(a) # Head(b) THEN Head(a) < Head(b)
    ELSE str_lt(Tail(a), Tail(b))

\* Mountain.__lt__
mountain_lt(self, other) ==
    IF self.length < other.length THEN TRUE
    ELSE IF self.length = other.length THEN str_lt(self.name, other.name)
    ELSE FALSE

\* the merge of two sorted lists, the left element first when none is less
RECURSIVE merge(_, _)
merge(l1, l2) ==
    IF l1 = <<>> THEN l2
    ELSE IF l2 = <<>> THEN l1
    ELSE IF mountain_lt(Head(l2), Head(l1))
    THEN <<Head(l2)>> \o merge(l1, Tail(l2))
    ELSE <<Head(l1)>> \o merge(Tail(l1), l2)

\* mergesort(l)
RECURSIVE mergesort(_)
mergesort(l) ==
    IF Len(l) <= 1 THEN l
    ELSE merge(mergesort(SubSeq(l, 1, (Len(l) + 1) \div 2)),
               mergesort(SubSeq(l, (Len(l) + 1) \div 2 + 1, Len(l))))

\* add_mountains with the rest of new_mountains_sorted left out
rest_of_organiser(list, new_mountains_sorted, index_a, index_b) ==
    IF index_a < Len(list) THEN SubSeq(list, index_a + 1, Len(list))
    ELSE <<>>

\* what add_mountains appends after its while loop: the rest of
\* organiser_list, or else the rest of new_mountains_sorted
rest_of_merge(list, new_mountains_sorted, index_a, index_b) ==
    IF index_a < Len(list) THEN SubSeq(list, index_a + 1, Len(list))
    ELSE IF index_b < Len(new_mountains_sorted)
    THEN SubSeq(new_mountains_sorted, index_b + 1, Len(new_mountains_sorted))
    ELSE <<>>

\* the while loop of add_mountains and what follows it; indices count the
\* elements taken, as the 0-based indices of the code do
RECURSIVE merge_loop(_, _, _, _, _)
merge_loop(list, new_mountains_sorted, index_a, index_b, all_mountains_sorted) ==
    IF index_a < Len(list) /\ index_b < Len(new_mountains_sorted)
    THEN IF mountain_lt(list[index_a + 1], new_mountains_sorted[index_b + 1])
         THEN merge_loop(list, new_mountains_sorted, index_a + 1, index_b,
                         Append(all_mountains_sorted, list[index_a + 1]))
         ELSE merge_loop(list, new_mountains_sorted, index_a, index_b + 1,
                         Append(all_mountains_sorted,
                                new_mountains_sorted[index_b + 1]))
    ELSE all_mountains_sorted
             \o rest_of_merge(list, new_mountains_sorted, index_a, index_b)

\* add_mountains: the new organiser_list
add_mountains(list, mountains) ==
    merge_loop(list, mergesort(mountains), 0, 0, <<>>)

(***************************************************************************)
(* The MountainOrganiser as a state machine: one organiser, and the calls  *)
(* of add_mountains made on it.                                            *)
(*   present  how many times each mountain was passed so far               *)
(***************************************************************************)
\* mountains "b" of length 1, "a" and "ab" of length 2, and a second "a" of
\* length 2 that differs from the first in difficulty only
Peaks ==
    {Mountain(<<98>>, 1, 1), Mountain(<<97>>, 1, 2), Mountain(<<97, 98>>, 2, 2),
     Mountain(<<97>>, 2, 2)}

\* longest list passed to add_mountains
MaxList == 3

\* most mountains held by the organiser
MaxPeaks == 7

\* the lists add_mountains is called with
PeakLists == UNION {[1..n -> Peaks] : n \in 0..MaxList}

\* how many times x occurs in list
occurrences(list, x) == Cardinality({n \in 1..Len(list) : list[n] = x})

\* MountainOrganiser()
InitOrganiser ==
    /\ organiser_list = <<>>
    /\ highest_difficulty = 0
    /\ TABLE_SIZES = <<>> /\ internal_sizes = <<>> /\ array_outer = <<>>
    /\ count_outer = 0 /\ size_index_outer = 0
    /\ top_table = <<>> /\ count = 0 /\ level = 0
    /\ NoTrail
    /\ last = [op |-> "init", mountains |-> <<>>, exc |-> "none"]
    /\ present = [m \in Peaks |-> 0]
    /\ deleted = FALSE
    /\ nops = 0

\* organiser.add_mountains(mountains)
AddMountains(mountains) ==
    /\ nops < MaxOps
    /\ Len(organiser_list) + Len(mountains) <= MaxPeaks
    /\ organiser_list' = add_mountains(organiser_list, mountains)
    /\ last' = [op |-> "add_mountains", mountains |-> mountains, exc |-> "none"]
    /\ present' = [m \in Peaks |-> present[m] + occurrences(mountains, m)]
    /\ nops' = nops + 1
    /\ UNCHANGED <<TABLE_SIZES, internal_sizes, array_outer, count_outer,
                   size_index_outer, top_table, count, level,
                   highest_difficulty, deleted, trail_vars>>

NextOrganiser == \E mountains \in PeakLists : AddMountains(mountains)

SpecOrganiser == InitOrganiser /\ [][NextOrganiser]_vars

\* C28: after every add_mountains, organiser_list is in ascending order by
\* (length, name): no element is less than the one before it; and it holds
\* every mountain exactly as many times as it was passed to add_mountains.
C28_OrganiserSortedAndComplete ==
    /\ \A n \in 1..(Len(organiser_list) - 1) :
          ~mountain_lt(organiser_list[n + 1], organiser_list[n])
    /\ \A m \in Peaks : occurrences(organiser_list, m) = present[m]
    /\ listed(organiser_list) \subseteq Peaks

\* a call with three mountains was merged into a list that held mountains
\* already: the list holds one mountain twice, both mountains named "a" of
\* length 2, and mountains of both lengths
C28_Witness ==
    /\ last.op = "add_mountains" /\ Len(last.mountains) = 3
    /\ Len(organiser_list) >= 5
    /\ \E m \in Peaks : present[m] >= 2
    /\ \A m \in Peaks : present[m] >= 1

(***************************************************************************)
(* Trail. A TrailStore is None, a TrailSeries or a TrailSplit; a Trail     *)
(* holds one store. LinkedStack and the WalkerPersonality are not among    *)
(* the source files: the stack is a last-in first-out sequence with its    *)
(* top first, add_mountain records its argument in added, and              *)
(* select_branch returns either answer, recorded in choices.               *)
(***************************************************************************)
\* Trail(store)
Trail(store_) == [store |-> store_]

\* TrailSeries(mountain, following)
TrailSeries(mountain, following) ==
    [class |-> "TrailSeries", mountain |-> mountain, following |-> following]

\* TrailSplit(path_top, path_bottom, path_follow)
TrailSplit(path_top, path_bottom, path_follow) ==
    [class |-> "TrailSplit", path_top |-> path_top,
     path_bottom |-> path_bottom, path_follow |-> path_follow]

\* store.__class__.__name__
class_name(store_) == IF store_ = None THEN "NoneType" ELSE store_.class

\* the TrailSeries objects of a trail, each named by the fields that lead
\* to it from the store of the trail
RECURSIVE series_of(_)
series_of(store_) ==
    IF class_name(store_) = "TrailSeries"
    THEN {<<>>} \cup {<<"following">> \o p : p \in series_of(store_.following.store)}
    ELSE IF class_name(store_) = "TrailSplit"
    THEN UNION {{<<f>> \o p : p \in series_of(store_[f].store)} :
                    f \in {"path_top", "path_bottom", "path_follow"}}
    ELSE {}

\* TrailSeries.remove_mountain on the series that path leads to: its
\* mountain becomes None, and the series stays where it is in the trail
RECURSIVE remove_mountain_at(_, _)
remove_mountain_at(store_, path) ==
    IF path = <<>> THEN [store_ EXCEPT !.mountain = None]
    ELSE [store_ EXCEPT ![Head(path)] =
              Trail(remove_mountain_at(@.store, Tail(path)))]

(***************************************************************************)
(* The walk as a state machine: a trail is built, remove_mountain may be   *)
(* called on one of its series, and follow_path walks it, one step for     *)
(* every round of its while loop.                                          *)
(*   trail            the Trail follow_path is called on                   *)
(*   current_store    the local of follow_path                             *)
(*   following_stack  the LinkedStack of path_follow trails, top first     *)
(*   added            the arguments of personality.add_mountain, in order  *)
(*   choices          the answers of personality.select_branch, in order   *)
(***************************************************************************)
\* the mountains put on trails
TrailMountains == {Mountain(<<107>>, 1, 1), Mountain(<<98>>, 2, 1)}

\* most TrailSeries and TrailSplit objects in a trail
MaxStores == 4

\* the stores made of exactly n TrailSeries and TrailSplit objects
RECURSIVE StoresOf(_)
StoresOf(n) ==
    IF n = 0 THEN {None}
    ELSE {TrailSeries(m, Trail(f)) : m \in TrailMountains, f \in StoresOf(n - 1)}
         \cup UNION {UNION {{TrailSplit(Trail(t), Trail(b), Trail(f)) :
                                 t \in StoresOf(i), b \in StoresOf(j),
                                 f \in StoresOf(n - 1 - i - j)} :
                            j \in 0..(n - 1 - i)} :
                     i \in 0..(n - 1)}

\* a trail is built
InitTrail ==
    /\ trail \in {Trail(s) : s \in UNION {StoresOf(n) : n \in 0..MaxStores}}
    /\ current_store = None
    /\ following_stack = <<>>
    /\ added = <<>>
    /\ choices = <<>>
    /\ last = [op |-> "Trail", exc |-> "none"]
    /\ NoMountains
    /\ TABLE_SIZES = <<>> /\ internal_sizes = <<>> /\ array_outer = <<>>
    /\ count_outer = 0 /\ size_index_outer = 0
    /\ top_table = <<>> /\ count = 0 /\ level = 0
    /\ present = {}
    /\ deleted = FALSE
    /\ nops = 0

\* what no step of the walk changes
walk_unchanged ==
    UNCHANGED <<TABLE_SIZES, internal_sizes, array_outer, count_outer,
                size_index_outer, top_table, count, level, present,
                nops, mountain_vars>>

\* series.remove_mountain() on a series of the trail, before the walk
RemoveSeriesMountain(path) ==
    /\ last.op = "Trail"
    /\ path \in series_of(trail.store)
    /\ trail' = Trail(remove_mountain_at(trail.store, path))
    /\ last' = [op |-> "remove_mountain", exc |-> "none"]
    /\ deleted' = TRUE
    /\ walk_unchanged
    /\ UNCHANGED <<current_store, following_stack, added, choices>>

\* trail.follow_path(personality) is called: the locals are set
FollowPath ==
    /\ last.op \in {"Trail", "remove_mountain"}
    /\ current_store' = trail.store
    /\ following_stack' = <<>>
    /\ last' = [op |-> "follow_path", exc |-> "none"]
    /\ walk_unchanged
    /\ UNCHANGED <<trail, added, choices, deleted>>

\* the condition of the while loop
walking == current_store # None \/ following_stack # <<>>

\* a round of the loop on a TrailSeries
WhileSeries ==
    /\ last.op = "follow_path" /\ walking
    /\ class_name(current_store) = "TrailSeries"
    /\ added' = Append(added, current_store.mountain)
    /\ current_store' = current_store.following.store
    /\ walk_unchanged
    /\ UNCHANGED <<trail, following_stack, choices, last, deleted>>

\* a round of the loop on a TrailSplit, select_branch answering top
WhileSplit(top) ==
    /\ last.op = "follow_path" /\ walking
    /\ class_name(current_store) = "TrailSplit"
    /\ choices' = Append(choices, top)
    /\ following_stack' = <<current_store.path_follow>> \o following_stack
    /\ current_store' = IF top THEN current_store.path_top.store
                               ELSE current_store.path_bottom.store
    /\ walk_unchanged
    /\ UNCHANGED <<trail, added, last, deleted>>

\* a round of the loop on None: the walk resumes at the top of the stack
WhileNone ==
    /\ last.op = "follow_path" /\ walking
    /\ class_name(current_store) = "NoneType"
    /\ current_store' = Head(following_stack).store
    /\ following_stack' = Tail(following_stack)
    /\ walk_unchanged
    /\ UNCHANGED <<trail, added, choices, last, deleted>>

\* the loop ends and follow_path returns
Return ==
    /\ last.op = "follow_path" /\ ~walking
    /\ last' = [op |-> "return", exc |-> "none"]
    /\ walk_unchanged
    /\ UNCHANGED <<trail_vars, deleted>>

\* the steps of a running follow_path
Walk ==
    \/ WhileSeries
    \/ \E top \in BOOLEAN : WhileSplit(top)
    \/ WhileNone
    \/ Return

NextTrail ==
    \/ \E path \in series_of(trail.store) : RemoveSeriesMountain(path)
    \/ FollowPath
    \/ Walk

SpecTrail == InitTrail /\ [][NextTrail]_vars

\* a call that runs keeps running until it returns
SpecTrailFair == SpecTrail /\ WF_vars(Walk)

\* the mountains of the route that the answers ch choose from store_, in
\* route order: a series gives its mountain and then its following trail,
\* a split gives the branch chosen and then its path_follow; the route
\* stops at a split for which ch holds no answer
RECURSIVE route(_, _)
route(store_, ch) ==
    IF store_ = None THEN [mountains |-> <<>>, choices |-> ch, stopped |-> FALSE]
    ELSE IF store_.class = "TrailSeries"
    THEN LET rest == route(store_.following.store, ch)
         IN  [rest EXCEPT !.mountains =
                  (IF store_.mountain = None THEN <<>> ELSE <<store_.mountain>>) \o @]
    ELSE IF ch = <<>> THEN [mountains |-> <<>>, choices |-> ch, stopped |-> TRUE]
    ELSE LET branch == route(IF Head(ch) THEN store_.path_top.store
                                         ELSE store_.path_bottom.store, Tail(ch))
         IN  IF branch.stopped THEN branch
             ELSE LET follow == route(store_.path_follow.store, branch.choices)
                  IN  [follow EXCEPT !.mountains = branch.mountains \o @]

\* list is the beginning of other
is_prefix(list, other) ==
    Len(list) <= Len(other) /\ list = SubSeq(other, 1, Len(list))

\* the calls of add_mountain made so far are the beginning of the route
on_route == is_prefix(added, route(trail.store, choices).mountains)

\* the route was walked to its end: add_mountain was called once for each
\* of its mountains, in route order, and for nothing else
route_walked ==
    LET r == route(trail.store, choices)
    IN  ~r.stopped /\ r.choices = <<>> /\ added = r.mountains

\* C29: a follow_path that was called returns; while it runs the calls of
\* add_mountain are the beginning of the chosen route, and when it returns
\* they are exactly the mountains of the chosen route, in route order.
C29_FollowPathWalksTheRoute ==
    /\ [](last.op = "follow_path" => on_route)
    /\ [](last.op = "return" => route_walked)
    /\ (last.op = "follow_path") ~> (last.op = "return")

====
